---- MODULE Spec2Model ----
(***************************************************************************)
(* Display-data resolution and normalization of the academic GPU profiler  *)
(* analyzers (src/analyser/gpu_bar_analyzer.py, gpu_profiler_analyzer.py). *)
(*                                                                         *)
(* Percentages are fixed-point integers in hundredths of a percent         *)
(* (100.0 % = 10000).  The input percentages are multiples of 0.05 %, so   *)
(* no sum lies exactly on one of the two tolerance thresholds of the code  *)
(* and the exact comparisons below agree with the floating-point ones.     *)
(* A float that numpy produces by 0.0/0.0 is the value NaN.                *)
(***************************************************************************)
EXTENDS Integers, Sequences, FiniteSets, TLC

VARIABLES
    df,             \* self.df: kernel records, sorted by percentage descending
    display_items,  \* self.custom_config["manual_display"] (directive list)
    pc,             \* position of the run
    i,              \* index of the directive being processed (1-based)
    labels,         \* prepare_display_data: labels
    sizes,          \* prepare_display_data: sizes
    colors,         \* prepare_display_data: colors
    used_kernels,   \* prepare_display_data: used_kernels (consumed set)
    unused_kernels, \* prepare_display_data: names reported as unused
    chart,          \* which chart method ran: "none", "bar" or "pie"
    rendered,       \* (label, value, color) sequence handed to matplotlib
    data,           \* self.data: the loaded profiling JSON
    error,          \* message of the exception raised, "" if none
    first_call      \* caller: result of an earlier prepare_display_data call

vars == <<df, display_items, pc, i, labels, sizes, colors, used_kernels,
          unused_kernels, chart, rendered, data, error, first_call>>

----------------------------------------------------------------------------
(* Bounds of the model *)

MaxRecords == 10      \* records on the default (no directive) path
MaxDirRecords == 3    \* records on the directive path
MaxDirectives == 2    \* length of an arbitrary directive list
MaxLong == 11         \* length of a repetitive (two-directive) long list

----------------------------------------------------------------------------
(* Program constants *)

Hundred == 10000      \* 100.0
TolTotal == 1         \* 0.01
TolRounded == 5       \* 0.05
TopN == 8             \* head(8)
Tab20Size == 20       \* number of colors of matplotlib's 'tab20'

None == "None"        \* Python None / JSON null
Absent == "<absent>"  \* key not present in a directive object

palette ==
    << "#4E79A7", "#F28E2B", "#E15759", "#76B7B2", "#59A14F",
       "#EDC948", "#B07AA1", "#FF9DA7", "#9C755F", "#BAB0AC" >>

----------------------------------------------------------------------------
(* Floating-point values: a number (in hundredths) or NaN *)

Num(x) == [nan |-> FALSE, v |-> x]
NaN == [nan |-> TRUE, v |-> 0]

Abs(x) == IF x < 0 THEN -x ELSE x

Add(a, b) == IF a.nan \/ b.nan THEN NaN ELSE Num(a.v + b.v)

RECURSIVE Sum(_)
Sum(s) == IF s = <<>> THEN Num(0) ELSE Add(Sum(SubSeq(s, 1, Len(s) - 1)), s[Len(s)])

\* a > b on floats: false as soon as one side is NaN
Gt(a, b) == ~a.nan /\ ~b.nan /\ a.v > b.v

\* abs(a - c) > tol on floats: false when a is NaN
FarFrom(a, c, tol) == ~a.nan /\ Abs(a.v - c) > tol

\* nearest integer to n/d (d > 0), ties to even
RoundHalfEven(n, d) ==
    LET q == n \div d
        r == n % d
    IN  IF 2 * r < d THEN q
        ELSE IF 2 * r > d THEN q + 1
        ELSE IF q % 2 = 0 THEN q ELSE q + 1

\* round(x, 1) of a value given in hundredths
Round1(a) == IF a.nan THEN NaN ELSE Num(10 * RoundHalfEven(a.v, 10))

\* round(size * 100.0 / total, 1); the quotient by a zero total is NaN
\* (every size is then zero as well, percentages being non-negative)
RescaleRound(size, total) ==
    IF size.nan \/ total.nan \/ total.v = 0 THEN NaN
    ELSE Num(10 * RoundHalfEven(size.v * 1000, total.v))

----------------------------------------------------------------------------
(* Name Mapper *)

kernel_name_mapping ==
    [ k \in { "SolveXPBDHydrostatic", "SolveXPBDDeviatoric", "UpdateSurfaceMesh",
              "UpdateStressVisualization", "PredictPositions", "CollideSDF",
              "CollideSDF_PreStep", "CollideParticles", "SolveAttachment",
              "ApplyDeltas", "XPBDFinalize", "UpdateMotionConstraints",
              "SolveConstraints", "ComputeAverageResidual", "SolveStableNeoHookean",
              "UpdateSpatialHash", "NormalizeSurfaceNormals", "UpdateSurfaceNormals",
              "UpdateSurfaceVertices" } |->
      CASE k = "SolveXPBDHydrostatic" -> "Hydrostatic Solver"
        [] k = "SolveXPBDDeviatoric" -> "Deviatoric Solver"
        [] k = "UpdateSurfaceMesh" -> "Surface Update"
        [] k = "UpdateStressVisualization" -> "Stress Visualization"
        [] k = "PredictPositions" -> "Position Prediction"
        [] k = "CollideSDF" -> "SDF Collision"
        [] k = "CollideSDF_PreStep" -> "SDF Pre-Step"
        [] k = "CollideParticles" -> "Particle Collision"
        [] k = "SolveAttachment" -> "Attachment Solver"
        [] k = "ApplyDeltas" -> "Delta Application"
        [] k = "XPBDFinalize" -> "XPBD Finalization"
        [] k = "UpdateMotionConstraints" -> "Motion Constraints"
        [] k = "SolveConstraints" -> "Constraint Solving"
        [] k = "ComputeAverageResidual" -> "Residual Computation"
        [] k = "SolveStableNeoHookean" -> "Neo-Hookean Solver"
        [] k = "UpdateSpatialHash" -> "Spatial Hashing"
        [] k = "NormalizeSurfaceNormals" -> "Normal Computation"
        [] k = "UpdateSurfaceNormals" -> "Surface Normals"
        [] OTHER -> "Surface Vertices" ]

\* self.kernel_name_mapping.get(x, x)
MapName(x) == IF x \in DOMAIN kernel_name_mapping THEN kernel_name_mapping[x] ELSE x

----------------------------------------------------------------------------
(* Inputs: kernel records and display directives *)

Percentages == {0, 1000, 3975, 6025}

KernelName(k) ==
    CASE k = 1 -> "SolveXPBDHydrostatic"
      [] k = 2 -> "CollideSDF"
      [] k = 3 -> "PredictPositions"
      [] OTHER -> "Kernel" \o ToString(k)

MissingName == "DoesNotExist"

\* non-increasing sequences of length n over Percentages, all elements <= top
RECURSIVE DescSeqs(_, _)
DescSeqs(n, top) ==
    IF n = 0 THEN {<<>>}
    ELSE UNION { { <<p>> \o s : s \in DescSeqs(n - 1, p) } :
                 p \in {q \in Percentages : q <= top} }

\* create_dataframe: one row per kernel with its mapped display name,
\* sorted by percentage descending
create_dataframe(pcts) ==
    [k \in 1..Len(pcts) |->
        [name |-> KernelName(k), percentage |-> pcts[k],
         display_name |-> MapName(KernelName(k))]]

\* the kernel_statistics entries a data frame was built from
RawRows(d) == [k \in 1..Len(d) |-> [name |-> d[k].name, percentage |-> d[k].percentage]]

DataFrames(maxn) ==
    UNION { { create_dataframe(s) : s \in DescSeqs(n, Hundred) } : n \in 1..maxn }

Directive(t, k, ks, inc, dn, c) ==
    [type |-> t, kernel |-> k, kernels |-> ks, include_remaining |-> inc,
     display_name |-> dn, color |-> c]

DirectiveChoices ==
    { Directive("individual", KernelName(1), <<>>, FALSE, Absent, None),
      Directive("individual", KernelName(2), <<>>, FALSE, "Custom", "#123456"),
      Directive("individual", MissingName, <<>>, FALSE, Absent, None),
      Directive("merged", None, <<KernelName(1), KernelName(2)>>, FALSE, Absent, None),
      Directive("merged", None, <<KernelName(2), MissingName, KernelName(2)>>, FALSE,
                "Group", "#654321"),
      Directive("merged", None, <<MissingName>>, FALSE, Absent, None),
      Directive("merged", None, <<KernelName(3)>>, FALSE, None, None),
      Directive("others", None, <<>>, TRUE, Absent, None),
      Directive("others", None, <<>>, TRUE, "Rest", "#999999"),
      Directive("others", None, <<>>, FALSE, Absent, None),
      Directive("scatter", None, <<>>, FALSE, Absent, None),
      Directive(None, None, <<>>, FALSE, Absent, None) }

ShortLists ==
    UNION { [1..n -> DirectiveChoices] : n \in 1..MaxDirectives }

LongChoices ==
    { d \in DirectiveChoices :
        \/ d.type = "individual"
        \/ d.type = "merged" /\ d.display_name = Absent /\ Len(d.kernels) = 2
        \/ d.type = "others" /\ d.include_remaining /\ d.display_name = Absent }

\* long lists alternate two directives
LongLists ==
    { [k \in 1..n |-> IF k % 2 = 1 THEN d[1] ELSE d[2]] :
        d \in LongChoices \X LongChoices,
        n \in (MaxDirectives + 1)..MaxLong }

\* item.get(key, default)
Get(value, default) == IF value = Absent THEN default ELSE value

----------------------------------------------------------------------------
(* Helpers over self.df *)

Names(d) == { d[k].name : k \in 1..Len(d) }

\* self.df[self.df['name'] == kernel_name].iloc[0]
Row(d, kernel_name) ==
    d[CHOOSE k \in 1..Len(d) :
        /\ d[k].name = kernel_name
        /\ \A j \in 1..(k - 1) : d[j].name # kernel_name]

\* variant that ignores the consumed set
Remaining_IgnoresUsed(d, used) == d

\* self.df[~self.df['name'].isin(used)]
Remaining(d, used) == SelectSeq(d, LAMBDA r : r.name \notin used)

PercentageSum(rows) == Sum([k \in 1..Len(rows) |-> Num(rows[k].percentage)])

Min(a, b) == IF a < b THEN a ELSE b

----------------------------------------------------------------------------
(* get_academic_colors *)

\* cmap(i / n_colors) of the listed colormap 'tab20'
Tab20(idx, n_colors) == "tab20[" \o ToString((idx * Tab20Size) \div n_colors) \o "]"

\* variant without the 'tab20' fallback: slots beyond the palette get no color
get_academic_colors_NoFallback(n_colors) ==
    [k \in 1..n_colors |-> IF k <= Len(palette) THEN palette[k] ELSE None]

get_academic_colors(n_colors) ==
    IF n_colors <= Len(palette)
    THEN SubSeq(palette, 1, n_colors)
    ELSE [k \in 1..n_colors |-> Tab20(k - 1, n_colors)]

----------------------------------------------------------------------------
(* prepare_display_data: default policy *)

DefaultLabels(d) ==
    LET top_kernels == SubSeq(d, 1, Min(TopN, Len(d)))
        head == [k \in 1..Len(top_kernels) |-> top_kernels[k].display_name]
    IN  IF Len(d) > TopN
        THEN Append(head, "Others (" \o ToString(Len(d) - TopN) \o ")")
        ELSE head

\* variant whose "Others" sum starts one record too early
DefaultSizes_OthersFromEighth(d) ==
    LET top_kernels == SubSeq(d, 1, Min(TopN, Len(d)))
        head == [k \in 1..Len(top_kernels) |-> Num(top_kernels[k].percentage)]
    IN  IF Len(d) > TopN
        THEN Append(head, PercentageSum(SubSeq(d, TopN, Len(d))))
        ELSE head

DefaultSizes(d) ==
    LET top_kernels == SubSeq(d, 1, Min(TopN, Len(d)))
        head == [k \in 1..Len(top_kernels) |-> Num(top_kernels[k].percentage)]
    IN  IF Len(d) > TopN
        THEN Append(head, PercentageSum(SubSeq(d, TopN + 1, Len(d))))
        ELSE head

----------------------------------------------------------------------------
(* prepare_display_data: directive processing *)

\* kernel names of a merged directive that are present in the data, in order
FoundKernels(d, kernel_names) == SelectSeq(kernel_names, LAMBDA k : k \in Names(d))

\* variant that keeps only the first found kernel's percentage
MergedTotal_FirstOnly(d, found_kernels) ==
    IF found_kernels = <<>> THEN Num(0) ELSE Num(Row(d, found_kernels[1]).percentage)

\* total_percentage of a merged directive
MergedTotal(d, found_kernels) ==
    Sum([k \in 1..Len(found_kernels) |-> Num(Row(d, found_kernels[k]).percentage)])

SeqToSet(s) == { s[k] : k \in 1..Len(s) }

\* variant that draws from the palette with a counter over the absent slots
FilledColors_FilteredCounter(cols, n_labels) ==
    LET base_colors == get_academic_colors(n_labels)
        absent_upto(k) == Cardinality({ j \in 1..k : cols[j] = None })
    IN  [k \in 1..Len(cols) |->
            IF cols[k] = None THEN base_colors[absent_upto(k)] ELSE cols[k]]

\* colors[i] = base_colors[i] wherever colors[i] is None
FilledColors(cols, n_labels) ==
    LET base_colors == get_academic_colors(n_labels)
    IN  [k \in 1..Len(cols) |-> IF cols[k] = None THEN base_colors[k] ELSE cols[k]]

----------------------------------------------------------------------------
(* prepare_display_data: normalization *)

\* variant that takes the last position of the maximum
MaxIndex_Last(s) ==
    CHOOSE k \in 1..Len(s) :
        /\ \A j \in 1..Len(s) : ~Gt(s[j], s[k])
        /\ \A j \in (k + 1)..Len(s) : Gt(s[k], s[j])

\* sizes.index(max(sizes))
MaxIndex(s) ==
    CHOOSE k \in 1..Len(s) :
        /\ \A j \in 1..Len(s) : ~Gt(s[j], s[k])
        /\ \A j \in 1..(k - 1) : Gt(s[k], s[j])

RoundedSizes(s) == [k \in 1..Len(s) |-> RescaleRound(s[k], Sum(s))]

\* variant that applies the drift with the wrong sign
CorrectedSizes_WrongSign(s, rounded_sizes) ==
    LET difference == Add(Num(Sum(rounded_sizes).v), Num(-Hundred))
        max_index == MaxIndex(s)
    IN  [rounded_sizes EXCEPT ![max_index] = Round1(Add(rounded_sizes[max_index], difference))]

\* the rounded sizes with the largest original entry absorbing the drift
CorrectedSizes(s, rounded_sizes) ==
    LET difference == Add(Num(Hundred), Num(-Sum(rounded_sizes).v))
        max_index == MaxIndex(s)
    IN  [rounded_sizes EXCEPT ![max_index] = Round1(Add(rounded_sizes[max_index], difference))]

\* max(sizes) is evaluated on an empty list: ValueError
NormalizeRaises(s) ==
    /\ FarFrom(Sum(s), Hundred, TolTotal)
    /\ FarFrom(Sum(RoundedSizes(s)), Hundred, TolRounded)
    /\ s = <<>>

\* variant that rescales whatever the total is
NormalizeSizes_AlwaysRescales(s) ==
    IF FarFrom(Sum(RoundedSizes(s)), Hundred, TolRounded)
    THEN CorrectedSizes(s, RoundedSizes(s))
    ELSE RoundedSizes(s)

NormalizeSizes(s) ==
    IF FarFrom(Sum(s), Hundred, TolTotal)
    THEN IF FarFrom(Sum(RoundedSizes(s)), Hundred, TolRounded)
         THEN CorrectedSizes(s, RoundedSizes(s))
         ELSE RoundedSizes(s)
    ELSE s

----------------------------------------------------------------------------
(* chart methods *)

\* final_colors of create_academic_bar_chart / create_academic_pie_chart
FinalColors(lbls, custom_colors) ==
    IF custom_colors # <<>> /\ \A k \in 1..Len(custom_colors) : custom_colors[k] # None
    THEN custom_colors
    ELSE LET base_colors == get_academic_colors(Len(lbls))
         IN  [k \in 1..Len(lbls) |->
                IF k <= Len(custom_colors) /\ custom_colors[k] # None
                THEN custom_colors[k] ELSE base_colors[k]]

\* list(zip(labels, sizes, final_colors))
Zip(lbls, szs, cols) ==
    [k \in 1..Min(Len(lbls), Min(Len(szs), Len(cols))) |-> <<lbls[k], szs[k], cols[k]>>]

\* variant that places x in front of the elements equal to it (not stable)
InsertDesc_BeforeEqual(sorted, x) ==
    LET k == Cardinality({ j \in 1..Len(sorted) : Gt(sorted[j][2], x[2]) })
    IN  SubSeq(sorted, 1, k) \o <<x>> \o SubSeq(sorted, k + 1, Len(sorted))

\* insertion of x behind every element that x does not exceed
InsertDesc(sorted, x) ==
    LET k == Cardinality({ j \in 1..Len(sorted) : ~Gt(x[2], sorted[j][2]) })
    IN  SubSeq(sorted, 1, k) \o <<x>> \o SubSeq(sorted, k + 1, Len(sorted))

\* combined_data.sort(key=lambda x: x[1], reverse=True): stable, descending
RECURSIVE SortDesc(_)
SortDesc(rows) ==
    IF rows = <<>> THEN <<>>
    ELSE InsertDesc(SortDesc(SubSeq(rows, 1, Len(rows) - 1)), rows[Len(rows)])

----------------------------------------------------------------------------
(* State machine *)

Init ==
    /\ \/ /\ display_items = <<>>
          /\ df \in DataFrames(MaxRecords)
       \/ /\ display_items \in ShortLists \cup LongLists
          /\ df \in DataFrames(MaxDirRecords)
    /\ pc = "start"
    /\ i = 0
    /\ labels = <<>>
    /\ sizes = <<>>
    /\ colors = <<>>
    /\ used_kernels = {}
    /\ unused_kernels = {}
    /\ chart = "none"
    /\ rendered = <<>>
    /\ data = [has_key |-> TRUE, kernel_statistics |-> RawRows(df)]
    /\ error = ""
    /\ first_call = <<>>

\* lines 109-123: no manual_display configuration, top kernels plus "Others"
DefaultPath ==
    /\ pc = "start"
    /\ display_items = <<>>
    /\ labels' = DefaultLabels(df)
    /\ sizes' = DefaultSizes(df)
    /\ colors' = get_academic_colors(Len(DefaultLabels(df)))
    /\ pc' = "returned"
    /\ UNCHANGED <<df, display_items, i, used_kernels, unused_kernels, chart, rendered>>
    /\ UNCHANGED <<data, error, first_call>>

\* variant that keeps the consumed set of an earlier call
BeginDirectives_KeepsConsumed ==
    /\ pc = "start"
    /\ display_items # <<>>
    /\ labels' = <<>>
    /\ sizes' = <<>>
    /\ colors' = <<>>
    /\ i' = 1
    /\ pc' = "loop"
    /\ UNCHANGED <<df, display_items, used_kernels, unused_kernels, chart, rendered>>
    /\ UNCHANGED <<data, error, first_call>>

\* lines 125-133: the accumulators are created and the loop is entered
BeginDirectives ==
    /\ pc = "start"
    /\ display_items # <<>>
    /\ labels' = <<>>
    /\ sizes' = <<>>
    /\ colors' = <<>>
    /\ used_kernels' = {}
    /\ i' = 1
    /\ pc' = "loop"
    /\ UNCHANGED <<df, display_items, unused_kernels, chart, rendered>>
    /\ UNCHANGED <<data, error, first_call>>

InLoop == pc = "loop" /\ i \in 1..Len(display_items)

\* variant of the individual branch that forgets to mark the kernel consumed
ProcessIndividual_NotConsumed ==
    /\ InLoop
    /\ display_items[i].type = "individual"
    /\ LET item == display_items[i]
           kernel_name == item.kernel
       IN  IF kernel_name \in Names(df)
           THEN LET kernel_data == Row(df, kernel_name)
                    display_name == IF Get(item.display_name, None) = None
                                    THEN kernel_data.display_name
                                    ELSE item.display_name
                IN  /\ labels' = Append(labels, display_name)
                    /\ sizes' = Append(sizes, Num(kernel_data.percentage))
                    /\ colors' = Append(colors, item.color)
                    /\ UNCHANGED used_kernels
           ELSE UNCHANGED <<labels, sizes, colors, used_kernels>>
    /\ i' = i + 1
    /\ UNCHANGED <<df, display_items, pc, unused_kernels, chart, rendered>>
    /\ UNCHANGED <<data, error, first_call>>

\* lines 137-156
ProcessIndividual ==
    /\ InLoop
    /\ display_items[i].type = "individual"
    /\ LET item == display_items[i]
           kernel_name == item.kernel
       IN  IF kernel_name \in Names(df)
           THEN LET kernel_data == Row(df, kernel_name)
                    display_name == IF Get(item.display_name, None) = None
                                    THEN kernel_data.display_name
                                    ELSE item.display_name
                IN  /\ labels' = Append(labels, display_name)
                    /\ sizes' = Append(sizes, Num(kernel_data.percentage))
                    /\ colors' = Append(colors, item.color)
                    /\ used_kernels' = used_kernels \cup {kernel_name}
           ELSE UNCHANGED <<labels, sizes, colors, used_kernels>>
    /\ i' = i + 1
    /\ UNCHANGED <<df, display_items, pc, unused_kernels, chart, rendered>>
    /\ UNCHANGED <<data, error, first_call>>

\* lines 158-183
\* variant of the merged branch that forgets to mark the found kernels consumed
ProcessMerged_NotConsumed ==
    /\ InLoop
    /\ display_items[i].type = "merged"
    /\ LET item == display_items[i]
           found_kernels == FoundKernels(df, item.kernels)
           total_percentage == MergedTotal(df, found_kernels)
       IN  IF found_kernels # <<>>
           THEN /\ labels' = Append(labels,
                       Get(item.display_name,
                           "Merged (" \o ToString(Len(found_kernels)) \o ")"))
                /\ sizes' = Append(sizes, total_percentage)
                /\ colors' = Append(colors, item.color)
           ELSE UNCHANGED <<labels, sizes, colors>>
    /\ i' = i + 1
    /\ UNCHANGED <<df, display_items, pc, used_kernels, unused_kernels, chart, rendered>>
    /\ UNCHANGED <<data, error, first_call>>

ProcessMerged ==
    /\ InLoop
    /\ display_items[i].type = "merged"
    /\ LET item == display_items[i]
           found_kernels == FoundKernels(df, item.kernels)
           total_percentage == MergedTotal(df, found_kernels)
       IN  /\ used_kernels' = used_kernels \cup SeqToSet(found_kernels)
           /\ IF found_kernels # <<>>
              THEN /\ labels' = Append(labels,
                          Get(item.display_name,
                              "Merged (" \o ToString(Len(found_kernels)) \o ")"))
                   /\ sizes' = Append(sizes, total_percentage)
                   /\ colors' = Append(colors, item.color)
              ELSE UNCHANGED <<labels, sizes, colors>>
    /\ i' = i + 1
    /\ UNCHANGED <<df, display_items, pc, unused_kernels, chart, rendered>>
    /\ UNCHANGED <<data, error, first_call>>

\* variant of the others branch that puts its slot in front of the others
ProcessOthers_Prepends ==
    /\ InLoop
    /\ display_items[i].type = "others"
    /\ LET item == display_items[i]
           remaining_kernels == Remaining(df, used_kernels)
       IN  IF item.include_remaining /\ Len(remaining_kernels) > 0
           THEN /\ labels' = <<Get(item.display_name,
                                   "Others (" \o ToString(Len(remaining_kernels)) \o ")")>>
                             \o labels
                /\ sizes' = <<PercentageSum(remaining_kernels)>> \o sizes
                /\ colors' = <<item.color>> \o colors
           ELSE UNCHANGED <<labels, sizes, colors>>
    /\ i' = i + 1
    /\ UNCHANGED <<df, display_items, pc, used_kernels, unused_kernels, chart, rendered>>
    /\ UNCHANGED <<data, error, first_call>>

\* lines 185-196
ProcessOthers ==
    /\ InLoop
    /\ display_items[i].type = "others"
    /\ LET item == display_items[i]
           remaining_kernels == Remaining(df, used_kernels)
       IN  IF item.include_remaining /\ Len(remaining_kernels) > 0
           THEN /\ labels' = Append(labels,
                       Get(item.display_name,
                           "Others (" \o ToString(Len(remaining_kernels)) \o ")"))
                /\ sizes' = Append(sizes, PercentageSum(remaining_kernels))
                /\ colors' = Append(colors, item.color)
           ELSE UNCHANGED <<labels, sizes, colors>>
    /\ i' = i + 1
    /\ UNCHANGED <<df, display_items, pc, used_kernels, unused_kernels, chart, rendered>>
    /\ UNCHANGED <<data, error, first_call>>

\* lines 133-196: an item of any other type matches no branch
\* variant that emits a label for a directive of unknown type
SkipUnknown_AppendsLabel ==
    /\ InLoop
    /\ display_items[i].type \notin {"individual", "merged", "others"}
    /\ labels' = Append(labels, display_items[i].type)
    /\ i' = i + 1
    /\ UNCHANGED <<df, display_items, pc, sizes, colors, used_kernels,
                   unused_kernels, chart, rendered>>
    /\ UNCHANGED <<data, error, first_call>>

SkipUnknown ==
    /\ InLoop
    /\ display_items[i].type \notin {"individual", "merged", "others"}
    /\ i' = i + 1
    /\ UNCHANGED <<df, display_items, pc, labels, sizes, colors, used_kernels,
                   unused_kernels, chart, rendered>>
    /\ UNCHANGED <<data, error, first_call>>

\* lines 198-209: unused-kernel report, then missing colors are filled in
FillColors ==
    /\ pc = "loop"
    /\ i > Len(display_items)
    /\ unused_kernels' = Names(df) \ used_kernels
    /\ colors' = FilledColors(colors, Len(labels))
    /\ pc' = "normalize"
    /\ UNCHANGED <<df, display_items, i, labels, sizes, used_kernels, chart, rendered>>
    /\ UNCHANGED <<data, error, first_call>>

\* lines 211-236: normalization and return, or the ValueError of max([])
Normalize ==
    /\ pc = "normalize"
    /\ IF NormalizeRaises(sizes)
       THEN /\ pc' = "raised"
            /\ error' = "max() arg is an empty sequence"
            /\ UNCHANGED sizes
       ELSE /\ pc' = "returned"
            /\ sizes' = NormalizeSizes(sizes)
            /\ UNCHANGED error
    /\ UNCHANGED <<data, first_call>>
    /\ UNCHANGED <<df, display_items, i, labels, colors, used_kernels,
                   unused_kernels, chart, rendered>>

\* gpu_bar_analyzer.py lines 238-287, after prepare_display_data has returned
create_academic_bar_chart ==
    /\ pc = "returned"
    /\ chart' = "bar"
    /\ IF labels = <<>>
       THEN /\ pc' = "nodata"
            /\ UNCHANGED rendered
       ELSE /\ pc' = "rendered"
            /\ rendered' = SortDesc(Zip(labels, sizes, FinalColors(labels, colors)))
    /\ UNCHANGED <<df, display_items, i, labels, sizes, colors, used_kernels,
                   unused_kernels>>
    /\ UNCHANGED <<data, error, first_call>>

\* gpu_profiler_analyzer.py lines 240-310, after prepare_display_data has returned
create_academic_pie_chart ==
    /\ pc = "returned"
    /\ chart' = "pie"
    /\ IF labels = <<>>
       THEN /\ pc' = "nodata"
            /\ UNCHANGED rendered
       ELSE /\ pc' = "rendered"
            /\ rendered' = Zip(labels, sizes, FinalColors(labels, colors))
    /\ UNCHANGED <<df, display_items, i, labels, sizes, colors, used_kernels,
                   unused_kernels>>
    /\ UNCHANGED <<data, error, first_call>>

Next ==
    \/ DefaultPath
    \/ BeginDirectives
    \/ ProcessIndividual
    \/ ProcessMerged
    \/ ProcessOthers
    \/ SkipUnknown
    \/ FillColors
    \/ Normalize
    \/ create_academic_bar_chart
    \/ create_academic_pie_chart

Spec == Init /\ [][Next]_vars

----------------------------------------------------------------------------
(* Construction of the analyzer from the loaded JSON *)

MaxLoadRecords == 3   \* entries of kernel_statistics in a loaded file

MissingKeyError == "Invalid JSON format: missing 'kernel_statistics'"
NoKernelsError == "No kernel statistics found in the data"

\* variant of the input check without the test for an empty kernel list
LoadError_NoEmptyCheck(d) ==
    IF ~d.has_key THEN MissingKeyError ELSE ""

\* create_dataframe lines 71-76: the ValueError raised for the input, "" if none
LoadError(d) ==
    IF ~d.has_key THEN MissingKeyError
    ELSE IF d.kernel_statistics = <<>> THEN NoKernelsError
    ELSE ""

\* create_dataframe lines 78-87: the rows with their display names in an order
\* of descending percentage (rows of equal percentage in any order)
SortedFrames(stats) ==
    LET n == Len(stats)
        perms == { p \in [1..n -> 1..n] : \A a, b \in 1..n : a # b => p[a] # p[b] }
    IN  { [k \in 1..n |->
              [name |-> stats[p[k]].name, percentage |-> stats[p[k]].percentage,
               display_name |-> MapName(stats[p[k]].name)]] :
          p \in { q \in perms :
                    \A a, b \in 1..n :
                        a < b => stats[q[a]].percentage >= stats[q[b]].percentage } }

\* kernel_statistics lists as they may appear in a file, in any order
RawLists ==
    UNION { { [k \in 1..n |-> [name |-> KernelName(k), percentage |-> p[k]]] :
                p \in [1..n -> Percentages] } : n \in 0..MaxLoadRecords }

LoadInputs ==
    { [has_key |-> FALSE, kernel_statistics |-> <<>>] }
    \cup { [has_key |-> TRUE, kernel_statistics |-> s] : s \in RawLists }

LoadInit ==
    /\ data \in LoadInputs
    /\ display_items \in {<<>>} \cup [1..1 -> DirectiveChoices]
    /\ df = <<>>
    /\ pc = "construct"
    /\ i = 0
    /\ labels = <<>>
    /\ sizes = <<>>
    /\ colors = <<>>
    /\ used_kernels = {}
    /\ unused_kernels = {}
    /\ chart = "none"
    /\ rendered = <<>>
    /\ error = ""
    /\ first_call = <<>>

\* __init__ lines 20-26 with create_dataframe lines 69-87
Construct ==
    /\ pc = "construct"
    /\ IF LoadError(data) # ""
       THEN /\ pc' = "failed"
            /\ error' = LoadError(data)
            /\ UNCHANGED df
       ELSE /\ pc' = "start"
            /\ df' \in SortedFrames(data.kernel_statistics)
            /\ UNCHANGED error
    /\ UNCHANGED <<display_items, i, labels, sizes, colors, used_kernels,
                   unused_kernels, chart, rendered, data, first_call>>

LoadNext == Construct \/ Next

LoadSpec == LoadInit /\ [][LoadNext]_vars

----------------------------------------------------------------------------
(* A caller that invokes prepare_display_data twice on one analyzer *)

MaxRepeatRecords == 2 \* records of an analyzer that is called twice

RepeatInit ==
    /\ display_items \in {<<>>} \cup ShortLists
    /\ df \in DataFrames(MaxRepeatRecords)
    /\ pc = "start"
    /\ i = 0
    /\ labels = <<>>
    /\ sizes = <<>>
    /\ colors = <<>>
    /\ used_kernels = {}
    /\ unused_kernels = {}
    /\ chart = "none"
    /\ rendered = <<>>
    /\ data = [has_key |-> TRUE, kernel_statistics |-> RawRows(df)]
    /\ error = ""
    /\ first_call = <<>>

\* the caller keeps the returned (labels, sizes, colors) and calls again;
\* the second call starts at line 107 and assigns every local anew
CallAgain ==
    /\ pc = "returned"
    /\ first_call = <<>>
    /\ first_call' = <<labels, sizes, colors>>
    /\ pc' = "start"
    /\ UNCHANGED <<df, display_items, i, labels, sizes, colors, used_kernels,
                   unused_kernels, chart, rendered, data, error>>

RepeatNext == Next \/ CallAgain

RepeatSpec == RepeatInit /\ [][RepeatNext]_vars

----------------------------------------------------------------------------
(* Properties *)

Returned == pc = "returned"
Finished == pc \in {"raised", "nodata", "rendered"}
DirectivePath == display_items # <<>>
AllNames == Names(df)
IsNumber(a) == ~a.nan
WithinOf(a, c, tol) == IsNumber(a) /\ Abs(a.v - c) <= tol

\* C1: whatever the records and directives, the values returned by
\* prepare_display_data sum to 100.0 within 0.05.
C1_SumIsHundred ==
    Returned => WithinOf(Sum(sizes), Hundred, TolRounded)

\* C2: records A:10, B:10, C:10 and no directives give 33.3 for two slots,
\* 33.4 for exactly one, and a sum of exactly 100.0.
C2_ThreeTensRescaled ==
    ( /\ Returned
      /\ ~DirectivePath
      /\ Len(df) = 3
      /\ \A k \in 1..3 : df[k].percentage = 1000 )
    => /\ Len(sizes) = 3
       /\ \A k \in 1..3 : sizes[k] \in {Num(3330), Num(3340)}
       /\ Cardinality({ k \in 1..3 : sizes[k] = Num(3340) }) = 1
       /\ Sum(sizes) = Num(Hundred)

\* C3: with no directives and n records, the result has min(n, 8) slots with
\* the first records' percentages in order and, exactly when n > 8, one more
\* last slot "Others (n-8)" holding the sum of records 9..n; n = 10 gives 9.
C3_DefaultTopEight ==
    (Returned /\ ~DirectivePath) =>
        LET n == Len(df)
            m == Min(n, 8)
        IN  /\ Len(labels) = (IF n > 8 THEN m + 1 ELSE m)
            /\ Len(sizes) = Len(labels)
            /\ \A k \in 1..m : sizes[k] = Num(df[k].percentage)
            /\ \A k \in 1..m : labels[k] = df[k].display_name
            /\ n > 8 =>
                 /\ labels[9] = "Others (" \o ToString(n - 8) \o ")"
                 /\ sizes[9] = Sum([k \in 1..(n - 8) |-> Num(df[8 + k].percentage)])
            /\ n = 10 => Len(labels) = 9

C3_Witness ==
    /\ Returned /\ ~DirectivePath
    /\ Len(df) = 10
    /\ Len(labels) = 9
    /\ labels[9] = "Others (2)"
    /\ sizes[9] = Num(7025)

HasMissingIndividual ==
    \E k \in 1..Len(display_items) :
        /\ display_items[k].type = "individual"
        /\ display_items[k].kernel \notin AllNames

\* C4: an Individual directive naming no record adds no slot, leaves the
\* consumed set alone and lets processing go on, and prepare_display_data
\* never raises for a list that contains such a directive.
C4_MissingIndividualHarmless ==
    /\ [][ ( /\ InLoop
             /\ display_items[i].type = "individual"
             /\ display_items[i].kernel \notin AllNames )
           => ( /\ labels' = labels /\ sizes' = sizes /\ colors' = colors
                /\ used_kernels' = used_kernels
                /\ pc' = "loop" /\ i' = i + 1 ) ]_vars
    /\ [](HasMissingIndividual => pc # "raised")

\* C5: when the directives emit no slot at all, the chart operation ends by
\* reporting "no data to display", with nothing rendered and no error raised.
C5_NoDataReported ==
    (Finished /\ DirectivePath /\ labels = <<>>) =>
        (pc = "nodata" /\ rendered = <<>>)

\* C6: an Others directive that emits a slot leaves every record name in
\* the consumed set.
C6_OthersMarksConsumed ==
    [][ ( /\ InLoop
          /\ display_items[i].type = "others"
          /\ Len(labels') = Len(labels) + 1 )
        => used_kernels' = AllNames ]_vars

\* position of slot a of orig in the stable descending order
Rank(orig, a) ==
    1 + Cardinality({ b \in 1..Len(orig) : Gt(orig[b][2], orig[a][2]) })
      + Cardinality({ b \in 1..(a - 1) :
                        ~Gt(orig[a][2], orig[b][2]) /\ ~Gt(orig[b][2], orig[a][2]) })

IsStableDescending(out, orig) ==
    /\ Len(out) = Len(orig)
    /\ \A j, k \in 1..Len(out) : j < k => ~Gt(out[k][2], out[j][2])
    /\ \A a \in 1..Len(orig) : out[Rank(orig, a)] = orig[a]

Slots == Zip(labels, sizes, colors)

C8_NormalizeIdempotent ==
    (Returned /\ DirectivePath /\ \A k \in 1..Len(sizes) : IsNumber(sizes[k])) =>
        /\ ~NormalizeRaises(sizes)
        /\ NormalizeSizes(sizes) = sizes

C8_Witness ==
    /\ Returned /\ DirectivePath
    /\ sizes = <<Num(3340), Num(3330), Num(3330)>>

\* C9: every value handed to the renderer is a multiple of 0.1.
C9_OneDecimalValues ==
    pc = "rendered" =>
        \A k \in 1..Len(rendered) :
            IsNumber(rendered[k][2]) /\ rendered[k][2].v % 10 = 0

\* C10: once colors are resolved, every slot has a color that is not None.
C10_EveryColorPresent ==
    pc \in {"normalize", "returned", "raised", "nodata", "rendered"} =>
        /\ Len(colors) = Len(labels)
        /\ \A k \in 1..Len(colors) : colors[k] # None

C10_Witness ==
    /\ pc = "normalize"
    /\ Len(labels) > Len(palette)
    /\ \E k \in 1..Len(colors) : colors[k] = Tab20(k - 1, Len(labels))
    /\ \E k \in 1..Len(colors) : colors[k] = "#123456"

\* C11: with at most 10 slots, color resolution keeps every explicit color
\* and gives an absent slot at position k the k-th palette color (position
\* counted over all slots, not over the absent ones).
C11_PositionalPalette ==
    [][ (pc = "loop" /\ pc' = "normalize" /\ Len(labels) <= Len(palette))
        => /\ Len(colors') = Len(colors)
           /\ \A k \in 1..Len(colors) :
                 colors'[k] = IF colors[k] = None THEN palette[k] ELSE colors[k] ]_vars

C11_Witness ==
    /\ pc = "normalize"
    /\ Len(colors) = 2
    /\ display_items[1].color # None
    /\ display_items[2].color = None
    /\ colors[1] = display_items[1].color
    /\ colors[2] = palette[2]

\* the record of df whose name is n
RecordNamed(n) == CHOOSE r \in SeqToSet(df) : r.name = n

\* C12: an Individual directive whose kernel matches a record emits exactly
\* one slot: value the record's percentage, label the directive's
\* display_name if given and else the mapped display name, color the
\* directive's color or absent; the kernel joins the consumed set.
C12_IndividualEmitsOneSlot ==
    [][ ( /\ InLoop
          /\ display_items[i].type = "individual"
          /\ display_items[i].kernel \in AllNames )
        => LET item == display_items[i]
               n == Len(labels)
           IN  /\ Len(labels') = n + 1 /\ Len(sizes') = n + 1 /\ Len(colors') = n + 1
               /\ SubSeq(labels', 1, n) = labels
               /\ SubSeq(sizes', 1, n) = sizes
               /\ SubSeq(colors', 1, n) = colors
               /\ sizes'[n + 1] = Num(RecordNamed(item.kernel).percentage)
               /\ labels'[n + 1] = IF item.display_name \in {Absent, None}
                                   THEN MapName(item.kernel)
                                   ELSE item.display_name
               /\ colors'[n + 1] = item.color
               /\ used_kernels' = used_kernels \cup {item.kernel} ]_vars

C12_Witness ==
    /\ pc = "loop"
    /\ i = 3
    /\ display_items[1].type = "individual" /\ display_items[1].display_name = Absent
    /\ display_items[2].type = "individual" /\ display_items[2].display_name = "Custom"
    /\ labels = <<"Hydrostatic Solver", "Custom">>
    /\ sizes = <<Num(6025), Num(3975)>>
    /\ colors = <<None, "#123456">>
    /\ used_kernels = {KernelName(1), KernelName(2)}

\* sum of the percentages of the first n names of kernel_names that name a record
RECURSIVE FoundPercentage(_, _)
FoundPercentage(kernel_names, n) ==
    IF n = 0 THEN 0
    ELSE FoundPercentage(kernel_names, n - 1)
         + (IF kernel_names[n] \in AllNames
            THEN RecordNamed(kernel_names[n]).percentage ELSE 0)

FoundCount(kernel_names) ==
    Cardinality({ k \in 1..Len(kernel_names) : kernel_names[k] \in AllNames })

\* C13: a Merged directive emits one slot if at least one of its names matches
\* a record and none otherwise; the value is the sum of the found kernels'
\* percentages, missing names are skipped, every found name is consumed and
\* the default label is "Merged (<found_count>)".
C13_MergedSumsFound ==
    [][ (InLoop /\ display_items[i].type = "merged")
        => LET item == display_items[i]
               n == Len(labels)
               found == { item.kernels[k] : k \in 1..Len(item.kernels) } \cap AllNames
           IN  /\ used_kernels' = used_kernels \cup found
               /\ pc' = "loop" /\ i' = i + 1
               /\ IF found = {}
                  THEN labels' = labels /\ sizes' = sizes /\ colors' = colors
                  ELSE /\ Len(labels') = n + 1 /\ Len(sizes') = n + 1 /\ Len(colors') = n + 1
                       /\ SubSeq(labels', 1, n) = labels
                       /\ SubSeq(sizes', 1, n) = sizes
                       /\ SubSeq(colors', 1, n) = colors
                       /\ sizes'[n + 1] = Num(FoundPercentage(item.kernels, Len(item.kernels)))
                       /\ item.display_name = Absent =>
                            labels'[n + 1] =
                                "Merged (" \o ToString(FoundCount(item.kernels)) \o ")"
                       /\ item.display_name \notin {Absent, None} =>
                            labels'[n + 1] = item.display_name
                       /\ colors'[n + 1] = item.color ]_vars

C13_Witness ==
    /\ pc = "loop"
    /\ i = 2
    /\ display_items[1].type = "merged"
    /\ display_items[1].kernels = <<KernelName(1), KernelName(2)>>
    /\ labels = <<"Merged (2)">>
    /\ sizes = <<Num(10000)>>
    /\ df[1].percentage = 6025 /\ df[2].percentage = 3975
    /\ used_kernels = {KernelName(1), KernelName(2)}

\* sum of the percentages of the first n records whose name is not in used
RECURSIVE UnconsumedPercentage(_, _)
UnconsumedPercentage(used, n) ==
    IF n = 0 THEN 0
    ELSE UnconsumedPercentage(used, n - 1)
         + (IF df[n].name \in used THEN 0 ELSE df[n].percentage)

\* C14: an Others directive emits a slot only when include_remaining is true
\* and some record is not yet consumed at that point; the value is the sum
\* of exactly those records' percentages and the default label is
\* "Others (<count>)"; otherwise it emits nothing.
C14_OthersSumsUnconsumed ==
    [][ (InLoop /\ display_items[i].type = "others")
        => LET item == display_items[i]
               n == Len(labels)
               unconsumed == { k \in 1..Len(df) : df[k].name \notin used_kernels }
           IN  /\ pc' = "loop" /\ i' = i + 1
               /\ IF item.include_remaining /\ unconsumed # {}
                  THEN /\ Len(labels') = n + 1 /\ Len(sizes') = n + 1 /\ Len(colors') = n + 1
                       /\ SubSeq(labels', 1, n) = labels
                       /\ SubSeq(sizes', 1, n) = sizes
                       /\ SubSeq(colors', 1, n) = colors
                       /\ sizes'[n + 1] = Num(UnconsumedPercentage(used_kernels, Len(df)))
                       /\ item.display_name = Absent =>
                            labels'[n + 1] =
                                "Others (" \o ToString(Cardinality(unconsumed)) \o ")"
                       /\ item.display_name \notin {Absent, None} =>
                            labels'[n + 1] = item.display_name
                       /\ colors'[n + 1] = item.color
                  ELSE labels' = labels /\ sizes' = sizes /\ colors' = colors ]_vars

C14_Witness ==
    /\ pc = "loop"
    /\ i = 3
    /\ Len(df) = 3
    /\ display_items[1].type = "individual"
    /\ display_items[2].type = "others"
    /\ used_kernels = {KernelName(1)}
    /\ Len(labels) = 2
    /\ labels[2] = "Others (2)"
    /\ sizes[2] = Num(df[2].percentage + df[3].percentage)
    /\ sizes[2] # Num(0)

MissingInput == ~data.has_key \/ data.kernel_statistics = <<>>

\* C15: when the input lacks kernel_statistics or its kernel list is empty,
\* construction fails with a descriptive error before any slot computation,
\* and no slot or chart is ever produced.
C15_MissingInputFailsFirst ==
    MissingInput =>
        /\ pc \in {"construct", "failed"}
        /\ pc = "failed" =>
              error = (IF data.has_key THEN NoKernelsError ELSE MissingKeyError)
        /\ df = <<>>
        /\ labels = <<>> /\ sizes = <<>> /\ colors = <<>>
        /\ chart = "none" /\ rendered = <<>>

C15_Witness ==
    /\ pc = "failed"
    /\ data.has_key
    /\ data.kernel_statistics = <<>>
    /\ error = NoKernelsError

\* C16: a second prepare_display_data call on the same analyzer returns the
\* same (labels, sizes, colors) as the first; no call changes the records or
\* the directive list, and a call starts with an empty consumed set.
C16_RepeatableResult ==
    /\ []( (Returned /\ first_call # <<>>) => <<labels, sizes, colors>> = first_call )
    /\ [][ /\ df' = df /\ display_items' = display_items /\ data' = data
           /\ (pc = "start" /\ pc' = "loop") => used_kernels' = {} ]_vars

C16_Witness ==
    /\ Returned
    /\ first_call # <<>>
    /\ first_call = <<labels, sizes, colors>>
    /\ Len(display_items) = 2
    /\ display_items[1].type = "others" /\ display_items[1].include_remaining
    /\ display_items[2].type = "individual"
    /\ Len(labels) = 2

\* s is t, or t with one element appended
SameOrOneMore(s, t) ==
    \/ s = t
    \/ Len(s) = Len(t) + 1 /\ SubSeq(s, 1, Len(t)) = t

\* C17: on the directive path the slots are in the order of the directives
\* that emitted them: directives are processed in list order, each adds at
\* most one slot behind the slots already emitted, and the steps after the
\* loop neither add, drop nor reorder slots.
C17_SlotsInDirectiveOrder ==
    [][ /\ InLoop =>
              /\ pc' = "loop" /\ i' = i + 1
              /\ SameOrOneMore(labels', labels)
              /\ SameOrOneMore(sizes', sizes)
              /\ SameOrOneMore(colors', colors)
              /\ Len(labels') = Len(sizes') /\ Len(labels') = Len(colors')
        /\ (DirectivePath /\ pc \in {"loop", "normalize"} /\ ~InLoop) =>
              /\ labels' = labels
              /\ Len(sizes') = Len(sizes)
              /\ Len(colors') = Len(colors) ]_vars

C17_Witness ==
    /\ Returned
    /\ Len(display_items) = 2
    /\ display_items[1].type = "others" /\ display_items[1].display_name = "Rest"
    /\ display_items[2].type = "individual" /\ display_items[2].display_name = "Custom"
    /\ labels = <<"Rest", "Custom">>

\* C18: when normalization rescales and returns, and the rounded values sum
\* to more than 0.05 away from 100.0, exactly one slot differs from its
\* rounded rescaled value: the first slot holding the largest original
\* value, which takes the rounded value plus 100.0 minus the rounded total,
\* re-rounded; the result sums to exactly 100.0.  When the rounded sum is
\* within 0.05 the rounded values are returned as they are.
C18_CorrectionOnFirstLargest ==
    [][ (pc = "normalize" /\ pc' = "returned"
            /\ FarFrom(Sum(sizes), Hundred, TolTotal)) =>
          LET rounded == [k \in 1..Len(sizes) |-> RescaleRound(sizes[k], Sum(sizes))]
              rounded_total == Sum(rounded)
          IN  IF ~rounded_total.nan /\ Abs(rounded_total.v - Hundred) > TolRounded
              THEN /\ Len(sizes') = Len(sizes)
                   /\ \E m \in 1..Len(sizes) :
                        /\ \A j \in 1..Len(sizes) : sizes[j].v <= sizes[m].v
                        /\ \A j \in 1..(m - 1) : sizes[j].v < sizes[m].v
                        /\ sizes'[m] = Round1(Num(rounded[m].v + (Hundred - rounded_total.v)))
                        /\ sizes'[m] # rounded[m]
                        /\ \A k \in 1..Len(sizes) : k # m => sizes'[k] = rounded[k]
                   /\ Sum(sizes') = Num(Hundred)
              ELSE sizes' = rounded ]_vars

C18_Witness ==
    /\ Returned /\ DirectivePath
    /\ Len(sizes) = 3
    /\ \A k \in 1..3 : IsNumber(sizes[k]) /\ display_items[k].type = "individual"
    /\ sizes[1].v = sizes[2].v + 10
    /\ sizes[2] = sizes[3]

\* the drift the correction puts on slot k: 100.0 minus the rounded total on
\* the first slot holding the largest original value, nothing elsewhere
Drift(s, rounded, k) ==
    IF /\ FarFrom(Sum(rounded), Hundred, TolRounded)
       /\ \A j \in 1..Len(s) : ~Gt(s[j], s[k])
       /\ \A j \in 1..(k - 1) : Gt(s[k], s[j])
    THEN Hundred - Sum(rounded).v
    ELSE 0

\* C19 as stated: a total within 0.01 of 100.0 leaves every value as it
\* was; otherwise every returned value is the value rescaled by 100.0/total
\* and rounded to one decimal.
C19_RescaledAndRounded ==
    [][ (pc = "normalize" /\ pc' = "returned") =>
          IF ~FarFrom(Sum(sizes), Hundred, TolTotal)
          THEN sizes' = sizes
          ELSE /\ Len(sizes') = Len(sizes)
               /\ \A k \in 1..Len(sizes) :
                     sizes'[k] = RescaleRound(sizes[k], Sum(sizes)) ]_vars

\* C19: a total within 0.01 of 100.0 leaves every value as it was;
\* otherwise every returned value is the value rescaled by 100.0/total and
\* rounded to one decimal (NaN for a zero total), and when those rounded
\* values sum to more than 0.05 away from 100.0 the first slot holding the
\* largest original value has 100.0 minus the rounded sum added to it.
C19_RescaledRoundedAndCorrected ==
    [][ (pc = "normalize" /\ pc' = "returned") =>
          IF ~FarFrom(Sum(sizes), Hundred, TolTotal)
          THEN sizes' = sizes
          ELSE LET rounded ==
                     [k \in 1..Len(sizes) |-> RescaleRound(sizes[k], Sum(sizes))]
               IN  /\ Len(sizes') = Len(sizes)
                   /\ \A k \in 1..Len(sizes) :
                         sizes'[k] = Round1(Add(rounded[k],
                                                Num(Drift(sizes, rounded, k)))) ]_vars

C19_Witness ==
    /\ Returned /\ DirectivePath
    /\ Len(display_items) = 3 /\ Len(df) = 3
    /\ \A k \in 1..3 : display_items[k].type = "individual"
    /\ df[1].percentage = df[2].percentage /\ df[2].percentage = df[3].percentage
    /\ Len(sizes) = 3
    /\ sizes[1] = Num(3340)

\* the names directive j adds to used_kernels
Consumes(j) ==
    LET item == display_items[j]
    IN  CASE item.type = "individual" ->
                IF item.kernel \in Names(df) THEN {item.kernel} ELSE {}
          [] item.type = "merged" -> SeqToSet(FoundKernels(df, item.kernels))
          [] OTHER -> {}

\* used_kernels when directive j is reached
UsedBefore(j) == UNION { Consumes(k) : k \in 1..(j - 1) }

\* how many times the percentage of record n is added to the slot of directive j
CountedIn(j, n) ==
    LET item == display_items[j]
    IN  CASE item.type = "individual" ->
                IF item.kernel = n /\ n \in Names(df) THEN 1 ELSE 0
          [] item.type = "merged" ->
                IF n \in Names(df)
                THEN Cardinality({ k \in 1..Len(item.kernels) : item.kernels[k] = n })
                ELSE 0
          [] item.type = "others" ->
                IF item.include_remaining /\ n \in Names(df) \ UsedBefore(j)
                THEN 1 ELSE 0
          [] OTHER -> 0

\* how many times the percentage of record n was added by directives 1..j
RECURSIVE TimesCounted(_, _)
TimesCounted(n, j) ==
    IF j = 0 THEN 0 ELSE TimesCounted(n, j - 1) + CountedIn(j, n)

RECURSIVE CountedPercentage(_, _)
CountedPercentage(n, j) ==
    IF n = 0 THEN 0
    ELSE CountedPercentage(n - 1, j) + TimesCounted(df[n].name, j) * df[n].percentage

\* the counts above account for the state of the loop: the consumed set and
\* the total of the slot values emitted so far
CountsAgreeWithLoop ==
    pc = "loop" =>
        /\ used_kernels = UsedBefore(i)
        /\ Sum(sizes) = Num(CountedPercentage(Len(df), i - 1))

\* C20: no record's percentage is added to the slot values more than once,
\* whatever the directives processed so far.
C20_NoDoubleCounting ==
    pc = "loop" => \A n \in Names(df) : TimesCounted(n, i - 1) <= 1

\* C21: whenever the normalization branch is taken on the directive path the
\* divisor is non-zero and the value list is non-empty, so prepare_display_data
\* never raises there and returns numbers only.
C21_NormalizationWellDefined ==
    /\ (pc = "normalize" /\ FarFrom(Sum(sizes), Hundred, TolTotal)) =>
          /\ Sum(sizes) # Num(0)
          /\ sizes # <<>>
    /\ pc # "raised"
    /\ (Returned /\ DirectivePath) => \A k \in 1..Len(sizes) : IsNumber(sizes[k])

\* how many times directive j names n (Individual and Merged only)
ReferencesIn(j, n) ==
    LET item == display_items[j]
    IN  CASE item.type = "individual" -> IF item.kernel = n THEN 1 ELSE 0
          [] item.type = "merged" ->
                Cardinality({ k \in 1..Len(item.kernels) : item.kernels[k] = n })
          [] OTHER -> 0

\* how many times directives 1..j name n
RECURSIVE ReferencedTimes(_, _)
ReferencedTimes(n, j) ==
    IF j = 0 THEN 0 ELSE ReferencedTimes(n, j - 1) + ReferencesIn(j, n)

\* every record name is referenced at most once and the list ends with its
\* only Others directive, which has include_remaining true
ConservationCase ==
    /\ DirectivePath
    /\ \A n \in Names(df) : ReferencedTimes(n, Len(display_items)) <= 1
    /\ display_items[Len(display_items)].type = "others"
    /\ display_items[Len(display_items)].include_remaining
    /\ \A j \in 1..(Len(display_items) - 1) : display_items[j].type # "others"

\* C22: in that case the slot values before normalization sum to the sum of
\* all record percentages, each record being counted exactly once.
C22_Conservation ==
    (pc = "normalize" /\ ConservationCase) =>
        /\ Sum(sizes) = PercentageSum(df)
        /\ \A n \in Names(df) : TimesCounted(n, Len(display_items)) = 1

C22_Witness ==
    /\ pc = "normalize"
    /\ ConservationCase
    /\ display_items[1].type = "merged"
    /\ Len(df) = 3
    /\ Len(sizes) = 2
    /\ sizes[2] # Num(0)

\* C23: a directive whose type is not "individual", "merged" or "others", or
\* is missing, is passed over without error: the step leaves labels, sizes,
\* colors and used_kernels as they were and the loop goes on; the three
\* lists have equal length after every directive.
C23_UnknownTypeSkipped ==
    /\ [](pc = "loop" => Len(labels) = Len(sizes) /\ Len(sizes) = Len(colors))
    /\ [][ (InLoop /\ display_items[i].type \notin {"individual", "merged", "others"}) =>
              /\ pc' = "loop"
              /\ i' = i + 1
              /\ labels' = labels
              /\ sizes' = sizes
              /\ colors' = colors
              /\ used_kernels' = used_kernels ]_vars

C23_Witness ==
    /\ pc = "loop"
    /\ i = 3
    /\ display_items[1].type = "individual"
    /\ display_items[2].type = None
    /\ Len(labels) = 1
    /\ used_kernels # {}

----------------------------------------------------------------------------
(* AcademicGPUAnalyzer (pie chart class): prepare_display_data as a function
   of the data frame and the directive list *)

\* get_academic_colors of the pie class
PieColors(n_colors) ==
    [k \in 1..n_colors |->
        IF n_colors <= Len(palette) THEN palette[k] ELSE Tab20(k - 1, n_colors)]

\* the result of the branch taken when manual_display is empty
PieDefault(d) ==
    LET n_top == IF Len(d) < TopN THEN Len(d) ELSE TopN
        others == Len(d) > TopN
        lbls == [k \in 1..n_top |-> d[k].display_name]
                \o (IF others THEN <<"Others (" \o ToString(Len(d) - TopN) \o ")">>
                    ELSE <<>>)
        szs == [k \in 1..n_top |-> Num(d[k].percentage)]
               \o (IF others
                   THEN <<Sum([k \in 1..(Len(d) - TopN) |-> Num(d[TopN + k].percentage)])>>
                   ELSE <<>>)
    IN  [raised |-> FALSE, labels |-> lbls, sizes |-> szs, colors |-> PieColors(Len(lbls))]

PieEmpty == [labels |-> <<>>, sizes |-> <<>>, colors |-> <<>>, used |-> {}]

PieAppend(acc, label, size, color, consumed) ==
    [labels |-> Append(acc.labels, label), sizes |-> Append(acc.sizes, size),
     colors |-> Append(acc.colors, color), used |-> acc.used \cup consumed]

\* the inner loop of a merged item over its first n kernel names:
\* total_percentage and the number of found kernels
RECURSIVE PieMergedScan(_, _, _)
PieMergedScan(d, kernel_names, n) ==
    IF n = 0 THEN [total |-> Num(0), found |-> 0]
    ELSE LET before == PieMergedScan(d, kernel_names, n - 1)
         IN  IF \E r \in 1..Len(d) : d[r].name = kernel_names[n]
             THEN [total |-> Add(before.total, Num(Row(d, kernel_names[n]).percentage)),
                   found |-> before.found + 1]
             ELSE before

\* one iteration of the loop over display_items
PieItem(d, acc, item) ==
    CASE item.type = "individual" ->
            IF \E r \in 1..Len(d) : d[r].name = item.kernel
            THEN LET kernel_data == Row(d, item.kernel)
                 IN  PieAppend(acc,
                               IF item.display_name \in {Absent, None}
                               THEN kernel_data.display_name ELSE item.display_name,
                               Num(kernel_data.percentage), item.color, {item.kernel})
            ELSE acc
      [] item.type = "merged" ->
            LET scan == PieMergedScan(d, item.kernels, Len(item.kernels))
                consumed == { item.kernels[k] : k \in 1..Len(item.kernels) } \cap Names(d)
            IN  IF scan.found > 0
                THEN PieAppend(acc,
                               IF item.display_name = Absent
                               THEN "Merged (" \o ToString(scan.found) \o ")"
                               ELSE item.display_name,
                               scan.total, item.color, consumed)
                ELSE acc
      [] item.type = "others" ->
            LET remaining == { r \in 1..Len(d) : d[r].name \notin acc.used }
                ordered == SelectSeq(d, LAMBDA row : row.name \notin acc.used)
            IN  IF item.include_remaining /\ remaining # {}
                THEN PieAppend(acc,
                               IF item.display_name = Absent
                               THEN "Others (" \o ToString(Cardinality(remaining)) \o ")"
                               ELSE item.display_name,
                               Sum([k \in 1..Len(ordered) |-> Num(ordered[k].percentage)]),
                               item.color, {})
                ELSE acc
      [] OTHER -> acc

\* the loop over the first n display items
RECURSIVE PieLoop(_, _, _)
PieLoop(d, items, n) ==
    IF n = 0 THEN PieEmpty ELSE PieItem(d, PieLoop(d, items, n - 1), items[n])

\* variant of the normalization that leaves the rounding drift uncorrected
PieNormalize_NoCorrection(szs) ==
    LET total == Sum(szs)
        rounded_sizes == [k \in 1..Len(szs) |-> RescaleRound(szs[k], total)]
    IN  IF total.nan \/ Abs(total.v - Hundred) <= TolTotal
        THEN [raised |-> FALSE, sizes |-> szs]
        ELSE [raised |-> FALSE, sizes |-> rounded_sizes]

\* the normalization of the returned sizes; raised when max() gets no value
PieNormalize(szs) ==
    LET total == Sum(szs)
        rounded_sizes == [k \in 1..Len(szs) |-> RescaleRound(szs[k], total)]
        rounded_total == Sum(rounded_sizes)
        difference == Hundred - rounded_total.v
        is_max(m) == \A j \in 1..Len(szs) : szs[j].v <= szs[m].v
        max_index == CHOOSE m \in 1..Len(szs) :
                        is_max(m) /\ \A j \in 1..(m - 1) : ~is_max(j)
    IN  IF total.nan \/ Abs(total.v - Hundred) <= TolTotal
        THEN [raised |-> FALSE, sizes |-> szs]
        ELSE IF rounded_total.nan \/ Abs(rounded_total.v - Hundred) <= TolRounded
        THEN [raised |-> FALSE, sizes |-> rounded_sizes]
        ELSE IF szs = <<>>
        THEN [raised |-> TRUE, sizes |-> <<>>]
        ELSE [raised |-> FALSE,
              sizes |-> [k \in 1..Len(szs) |->
                            IF k = max_index
                            THEN Round1(Num(rounded_sizes[k].v + difference))
                            ELSE rounded_sizes[k]]]

\* AcademicGPUAnalyzer.prepare_display_data
pie_prepare_display_data(d, items) ==
    IF items = <<>> THEN PieDefault(d)
    ELSE LET acc == PieLoop(d, items, Len(items))
             base_colors == PieColors(Len(acc.labels))
             normalized == PieNormalize(acc.sizes)
         IN  [raised |-> normalized.raised,
              labels |-> acc.labels,
              sizes |-> normalized.sizes,
              colors |-> [k \in 1..Len(acc.colors) |->
                            IF acc.colors[k] = None THEN base_colors[k]
                            ELSE acc.colors[k]]]

\* C24: for every record list and directive list the bar class's
\* prepare_display_data and the pie class's prepare_display_data return the
\* same labels, sizes and colors, or both raise.
C24_BarAndPieAgree ==
    /\ Returned =>
          LET pie == pie_prepare_display_data(df, display_items)
          IN  /\ ~pie.raised
              /\ pie.labels = labels
              /\ pie.sizes = sizes
              /\ pie.colors = colors
    /\ pc = "raised" => pie_prepare_display_data(df, display_items).raised

C24_Witness ==
    /\ Returned
    /\ Len(display_items) = 2
    /\ display_items[1].type = "merged"
    /\ display_items[2].type = "others"
    /\ sizes = <<Num(6670), Num(3330)>>
    /\ pie_prepare_display_data(df, display_items).sizes = <<Num(6670), Num(3330)>>
    /\ pie_prepare_display_data(df, display_items).labels = labels

====
